---- MODULE Spec2Model ----
(***************************************************************************)
(* Model of the scamvax-api backend: the share lifecycle                   *)
(* (app/services/share.py, app/models/share.py, app/services/storage.py,   *)
(* app/core/scheduler.py) and the unlock-token / wallet economy            *)
(* (app/services/unlock.py, app/models/unlock.py, app/api/unlock.py).      *)
(*                                                                         *)
(* Every request runs in its own database session (app/core/database.py);  *)
(* the database is PostgreSQL under READ COMMITTED, so a single UPDATE is  *)
(* atomic and a SELECT ... FOR UPDATE holds the row until the transaction  *)
(* ends.  Each await on the database or on the blob store is one step.     *)
(***************************************************************************)
EXTENDS Integers, FiniteSets, Sequences, TLC

(* ------------------------------ bounds --------------------------------- *)

\* number of share rows present in the shares table
MaxShares == 1
\* number of service calls (access_share / delete_share) in one run
MaxCalls == 2
\* settings.share_max_clicks (SHARE_MAX_CLICKS), kept small
ShareMaxClicks == 3
\* settings.share_ttl_hours (SHARE_TTL_HOURS), kept small
ShareTtlHours == 1

\* number of devices that talk to the unlock service
MaxDevices == 2
\* number of unlock tokens issued in one run
MaxTokens == 1
\* number of consume_unlock_token calls in one run
MaxConsumes == 2

\* number of share rows present when the periodic sweep runs
MaxSwept == 2
\* most credits left in the wallet of a device that has spent the others
StartCredits == 2
\* number of unlock tokens such a device is issued in one run
WalletTokens == 2
\* number of generate_ai_audio calls in one run
MaxClones == 2
\* number of POST /api/share/create requests in one run
MaxCreates == 1
\* settings.rate_limit_per_device (RATE_LIMIT_PER_DEVICE), kept small
RateLimitPerDevice == 1

SecondsPerHour == 3600
\* settings.rate_limit_window_seconds
RateLimitWindowSeconds == 3600
\* for attempt in range(3)
MaxAttempts == 3
\* _TOKEN_TTL_SECONDS = 10 * 60
TokenTtlSeconds == 600
\* VALUES (:device_id, 100, false)
DefaultCredits == 100

ShareIds == 1..MaxShares
CreateIds == 1..MaxCreates
CloneIds == 1..MaxClones
SweptIds == 1..MaxSwept
CallIds == 1..MaxCalls
ShareTtlSeconds == ShareTtlHours * SecondsPerHour
\* the clock of the share model advances by one share lifetime: a share made
\* at 0 is seen before, at and after its expires_at
ShareTickSeconds == ShareTtlSeconds
MaxShareTime == ShareTtlSeconds + ShareTickSeconds
Devices == 1..MaxDevices
ConsumeIds == 1..MaxConsumes
\* the clock of the unlock model advances by one token lifetime
UnlockTickSeconds == TokenTtlSeconds
MaxUnlockTime == TokenTtlSeconds + UnlockTickSeconds

Min(a, b) == IF a <= b THEN a ELSE b

(* ------------------------------- state --------------------------------- *)

VARIABLES
  now,        \* the wall clock, in seconds (datetime.now / time.time)
  shares,     \* the shares table: share_id -> row
  blobs,      \* share ids whose audio object fake/<id>.wav exists in the bucket
  calls,      \* the access_share calls (GET /s/{share_id}) and their position
  sweep,      \* the background job cleanup_expired_shares
  served,     \* per share: the click_count of every row access_share returned
  outcomes,   \* per share: how many access_share calls updated / returned None / raised
  deletes,    \* per share: how many delete_share calls returned True
  blobFailed, \* share ids for which a delete_object call has failed so far
  wallets,    \* the device_wallets table: device_id -> row (committed)
  uses,       \* the unlock_token_uses table (committed rows)
  tokens,     \* the unlock tokens issue_unlock_token has returned
  nextJti,    \* stands for uuid4: the next fresh jti
  consumes,   \* the consume_unlock_token calls and their transaction
  lastIssue,  \* what the last issue_unlock_token call was asked and returned
  lastConsume, \* how the last consume_unlock_token call ended, and its arguments
  reported,   \* <<jti, n>>: the n-th consume_unlock_token call that returned the method of jti
  creates,    \* the POST /api/share/create requests and their position
  lastAudio,  \* what the last GET /api/share/{share_id}/audio request saw and answered
  voices,     \* the voice profiles registered at the synthesis provider
  clones      \* the generate_ai_audio calls and their position

shareVars == <<shares, blobs, calls, sweep, served, outcomes, deletes, blobFailed>>

unlockVars == <<wallets, uses, tokens, nextJti, consumes, lastIssue, lastConsume, reported>>

ttsVars == <<voices, clones>>

flowVars == <<creates, lastAudio, ttsVars>>

vars == <<now, shareVars, unlockVars, flowVars>>

ShareRow_viewed(d, created, expires) ==
  [status |-> "active", click_count |-> 1, max_clicks |-> ShareMaxClicks,
   expires_at |-> expires, device_id |-> d, created_at |-> created]

\* Share(share_id=..., device_id=d, expires_at=expires, click_count=0,
\* max_clicks=settings.share_max_clicks, status=ShareStatus.active, ...);
\* created_at is the server default now() of the insert
ShareRow(d, created, expires) ==
  [status |-> "active", click_count |-> 0, max_clicks |-> ShareMaxClicks,
   expires_at |-> expires, device_id |-> d, created_at |-> created]

\* Share row as create_share inserts it for device 1 when no time passes
\* within the call
NewShare(created) == ShareRow(1, created, created + ShareTtlSeconds)

\* no row under this share_id
NoShare ==
  [status |-> "none", click_count |-> 0, max_clicks |-> 0,
   expires_at |-> 0, device_id |-> 0, created_at |-> 0]

\* sid: the share a call is deleting (0 while it holds none)
IdleCall == [sid |-> 0, pc |-> "idle"]

DoneCall == [sid |-> 0, pc |-> "done"]

\* queue: the rows the scan returned and the loop has not reached yet;
\* running: the instances of the job the scheduler counts as running;
\* skipped: the last trigger found max_instances running and ran nothing
IdleSweep ==
  [pc |-> "idle", queue |-> {}, cur |-> 0, count |-> 0, running |-> 0,
   skipped |-> FALSE]

\* updates: UPDATEs that matched the row; not_found: calls that returned None;
\* error: calls that raised
NoOutcomes == [updates |-> 0, not_found |-> 0, error |-> 0]

(* ------------------------- Share.is_expired ---------------------------- *)

is_expired_late(row, t) ==
  row.click_count > row.max_clicks \/ t >= row.expires_at

is_expired_by_count(row, t) ==
  row.click_count >= row.max_clicks

is_expired(row, t) ==
  row.click_count >= row.max_clicks \/ t >= row.expires_at

is_accessible_ignoring_clicks(row, t) ==
  row.status = "active" /\ t < row.expires_at

is_accessible(row, t) ==
  row.status = "active" /\ ~is_expired(row, t)

(* --------------------------- storage.delete_audio ---------------------- *)

\* delete_object either succeeds (also when the key is already absent),
\* raises ClientError (caught, delete_audio returns False) or raises
\* something else (a connection error, which delete_audio does not catch).
StorageOutcomes == {"ok", "client_error", "other_error"}

blobs_after_delete_skipped(sid, outcome) == blobs

blobs_after_delete(sid, outcome) ==
  IF outcome = "ok" THEN blobs \ {sid} ELSE blobs

failed_after_delete(sid, outcome) ==
  IF outcome = "ok" THEN blobFailed ELSE blobFailed \cup {sid}

(* ------------------------------ access_share --------------------------- *)

\* the calls are interchangeable: call c is the c-th request to arrive
CanStart(c) ==
  /\ calls[c].pc = "idle"
  /\ \A b \in CallIds : b < c => calls[b].pc # "idle"

\* UPDATE shares SET click_count = click_count + 1
\* WHERE share_id = :id AND status = 'active' RETURNING *
update_matches_any_status(sid) ==
  sid \in DOMAIN shares /\ shares[sid].status # "none"

update_matches(sid) ==
  sid \in DOMAIN shares /\ shares[sid].status = "active"

incremented_not(row) == row

incremented(row) == [row EXCEPT !.click_count = @ + 1]

\* the log of what the calls on a share did
Returned(sid, what) ==
  outcomes' = [outcomes EXCEPT ![sid] = [@ EXCEPT ![what] = @ + 1]]

\* The UPDATE ... RETURNING holds the row until its commit and no await lies
\* between the commit and the look at the returned row, so the three are one
\* step.  share is None -> return None; share.is_expired() -> delete_share;
\* else return share.
access_share(c, sid) ==
  /\ CanStart(c)
  /\ IF update_matches(sid)
       THEN /\ shares' = [shares EXCEPT ![sid] = incremented(@)]
            /\ Returned(sid, "updates")
            /\ IF is_expired(incremented(shares[sid]), now)
                 THEN /\ calls' = [calls EXCEPT ![c] = [sid |-> sid, pc |-> "del_storage"]]
                      /\ served' = served
                 ELSE /\ calls' = [calls EXCEPT ![c] = DoneCall]
                      /\ served' = [served EXCEPT ![sid] =
                                      @ \cup {incremented(shares[sid]).click_count}]
       ELSE /\ shares' = shares
            /\ calls' = [calls EXCEPT ![c] = DoneCall]
            /\ Returned(sid, "not_found")
            /\ served' = served
  /\ UNCHANGED <<now, blobs, sweep, deletes, blobFailed, unlockVars, flowVars>>

(* ------------------------------ delete_share --------------------------- *)

\* audio_deleted = await run_in_threadpool(storage.delete_audio, share_id)
DeleteStorage(c, outcome) ==
  /\ calls[c].pc = "del_storage"
  /\ blobs' = blobs_after_delete(calls[c].sid, outcome)
  /\ blobFailed' = failed_after_delete(calls[c].sid, outcome)
  /\ IF outcome = "other_error"
       THEN /\ calls' = [calls EXCEPT ![c] = DoneCall]
            /\ Returned(calls[c].sid, "error")
       ELSE /\ calls' = [calls EXCEPT ![c] = [@ EXCEPT !.pc = "del_db"]]
            /\ outcomes' = outcomes
  /\ UNCHANGED <<now, shares, sweep, served, deletes, unlockVars, flowVars>>

status_row_removed(row) ==
  [status |-> "none", click_count |-> 0, max_clicks |-> 0,
   expires_at |-> 0, device_id |-> 0, created_at |-> 0]

status_toggled(row) ==
  [row EXCEPT !.status = IF @ = "deleted" THEN "active" ELSE "deleted"]

status_deleted(row) == [row EXCEPT !.status = "deleted"]

shares_after_delete_by_device(sid) ==
  [s \in DOMAIN shares |->
     IF shares[s].device_id = shares[sid].device_id
       THEN status_deleted(shares[s]) ELSE shares[s]]

\* UPDATE shares SET status = 'deleted' WHERE share_id = :id ; commit
shares_after_delete(sid) ==
  [s \in DOMAIN shares |-> IF s = sid THEN status_deleted(shares[s]) ELSE shares[s]]

\* delete_share returns True
DeleteReturned(sid) ==
  deletes' = [deletes EXCEPT ![sid] = @ + 1]

\* the status update of delete_share; access_share then returns None
DeleteDb(c) ==
  /\ calls[c].pc = "del_db"
  /\ shares' = shares_after_delete(calls[c].sid)
  /\ calls' = [calls EXCEPT ![c] = DoneCall]
  /\ DeleteReturned(calls[c].sid)
  /\ Returned(calls[c].sid, "not_found")
  /\ UNCHANGED <<now, blobs, sweep, served, blobFailed, unlockVars, flowVars>>

(* ------------------------- cleanup_expired_shares ---------------------- *)

\* SELECT * FROM shares WHERE status = 'active' AND expires_at <= now
sweep_selects_strictly_past(t) ==
  {s \in DOMAIN shares : shares[s].status = "active" /\ shares[s].expires_at < t}

sweep_selects_by_clicks(t) ==
  {s \in DOMAIN shares : shares[s].status = "active" /\ is_expired(shares[s], t)}

sweep_selects(t) ==
  {s \in DOMAIN shares : shares[s].status = "active" /\ shares[s].expires_at <= t}

\* scheduler.add_job(_cleanup_job, ..., max_instances=1)
max_instances == 1

submits_always(running) == TRUE

\* when the trigger fires the scheduler submits the job only while fewer
\* than max_instances of it are running
submits(running) == running < max_instances

\* the trigger fires and the job is submitted; with nothing selected the
\* loop body never runs and the job returns 0
SweepScan ==
  /\ submits(sweep.running)
  /\ sweep' = [pc |-> IF sweep_selects(now) = {} THEN "idle" ELSE "loop",
               queue |-> sweep_selects(now), cur |-> 0, count |-> 0,
               running |-> IF sweep_selects(now) = {} THEN sweep.running
                           ELSE sweep.running + 1,
               skipped |-> FALSE]
  /\ UNCHANGED <<now, shares, blobs, calls, served, outcomes, deletes, blobFailed, unlockVars, flowVars>>

\* for share in expired: delete_share -- the storage delete
SweepDeleteStorage(sid, outcome) ==
  /\ sweep.pc = "loop"
  /\ sid \in sweep.queue
  /\ blobs' = blobs_after_delete(sid, outcome)
  /\ blobFailed' = failed_after_delete(sid, outcome)
  /\ IF outcome = "other_error"
       THEN sweep' = [sweep EXCEPT !.pc = "idle", !.queue = {}, !.cur = 0,
                                   !.running = @ - 1]
       ELSE sweep' = [sweep EXCEPT !.pc = "del_db", !.cur = sid]
  /\ UNCHANGED <<now, shares, calls, served, outcomes, deletes, unlockVars, flowVars>>

\* for share in expired: delete_share -- the status update; count += 1;
\* after the last row: return count
SweepDeleteDb ==
  /\ sweep.pc = "del_db"
  /\ shares' = shares_after_delete(sweep.cur)
  /\ DeleteReturned(sweep.cur)
  /\ sweep' = [sweep EXCEPT !.pc = IF sweep.queue = {sweep.cur} THEN "idle" ELSE "loop",
                            !.queue = @ \ {sweep.cur},
                            !.cur = 0, !.count = @ + 1,
                            !.running = IF sweep.queue = {sweep.cur} THEN @ - 1 ELSE @]
  /\ UNCHANGED <<now, blobs, calls, served, outcomes, blobFailed, unlockVars, flowVars>>

\* the trigger fires while max_instances of the job are running: the
\* scheduler logs the run as skipped and submits nothing
SweepSkip ==
  /\ ~submits(sweep.running)
  /\ sweep' = [sweep EXCEPT !.skipped = TRUE]
  /\ UNCHANGED <<now, shares, blobs, calls, served, outcomes, deletes, blobFailed,
                 unlockVars, flowVars>>

(* -------------------- GET /api/share/{share_id}/audio ------------------- *)

\* sid: the path parameter; answer: the response; body: the object was there
\* to be streamed; turn: flips with every request
NoAudio == [sid |-> 0, answer |-> "none", body |-> FALSE, turn |-> FALSE]

\* share = await get_share(db, share_id); share is None or not
\* share.is_accessible() -> 404 SHARE_UNAVAILABLE; else a StreamingResponse
\* over storage.stream_audio(share_id).  Nothing is written.
get_audio_answer(sid) ==
  IF sid \notin DOMAIN shares \/ shares[sid].status = "none" THEN "SHARE_UNAVAILABLE"
  ELSE IF ~is_accessible(shares[sid], now) THEN "SHARE_UNAVAILABLE"
  ELSE "StreamingResponse"

GetAudio(sid) ==
  /\ lastAudio' = [sid |-> sid, answer |-> get_audio_answer(sid),
                   body |-> (get_audio_answer(sid) = "StreamingResponse"
                               /\ sid \in blobs),
                   turn |-> ~lastAudio.turn]
  /\ UNCHANGED <<now, shareVars, unlockVars, creates, ttsVars>>

(* ----------------------- POST /api/share/create ------------------------ *)

\* the unlock_proof form field: empty, the literal NONE, or any other string
\* (a well-formed token, a used one, an expired one, or garbage alike)
Proofs == {"", "NONE", "proof"}

\* the audio_file form field: larger than audio_max_size_mb, not decodable
\* by convert_to_wav, or a good recording
Files == {"too_large", "not_audio", "audio"}

\* did, proof: the form fields; attempt: the loop variable of create_share;
\* sid: the share_id of the attempt (of the inserted row once done);
\* began: when the transaction of the session began (the first statement
\* of the request, the query of check_rate_limit);
\* expires: expires_at as computed on entry; put: the ids under which the
\* request has uploaded an object that it has not deleted again; code: how
\* the request ended
IdleCreate ==
  [pc |-> "idle", did |-> 0, proof |-> "", began |-> 0, attempt |-> 0, sid |-> 0,
   expires |-> 0, put |-> {}, code |-> "none"]

\* the request is answered with this code
Answered(call, code) ==
  [IdleCreate EXCEPT !.pc = "done", !.did = call.did, !.proof = call.proof,
                     !.attempt = call.attempt,
                     !.sid = IF code = "ok" THEN call.sid ELSE 0,
                     !.put = call.put, !.code = code]

\* the requests are interchangeable: request c is the c-th to arrive
CanCreate(c) ==
  /\ creates[c].pc = "idle"
  /\ \A b \in CreateIds : b < c => creates[b].pc # "idle"

recent_count_any_status(d, t) ==
  Cardinality({s \in DOMAIN shares :
                 /\ shares[s].status # "none"
                 /\ shares[s].device_id = d
                 /\ shares[s].created_at >= t - RateLimitWindowSeconds})

\* check_rate_limit: rows of the device inside the window, status != failed
recent_count(d, t) ==
  Cardinality({s \in DOMAIN shares :
                 /\ shares[s].status \notin {"none", "failed"}
                 /\ shares[s].device_id = d
                 /\ shares[s].created_at >= t - RateLimitWindowSeconds})

check_rate_limit_off_by_one(d, t) == recent_count(d, t) <= RateLimitPerDevice

check_rate_limit(d, t) == recent_count(d, t) < RateLimitPerDevice

\* if not unlock_proof or unlock_proof == "NONE": 402 UNLOCK_REQUIRED
unlock_proof_check(proof) ==
  IF proof = "" \/ proof = "NONE" THEN "UNLOCK_REQUIRED" ELSE "ok"

create_checks_unlock_first(d, proof, file, t) ==
  IF unlock_proof_check(proof) # "ok" THEN unlock_proof_check(proof)
  ELSE IF file = "too_large" THEN "FILE_TOO_LARGE"
  ELSE IF ~check_rate_limit(d, t) THEN "RATE_LIMITED"
  ELSE IF file = "not_audio" THEN "AudioProcessingError"
  ELSE "ok"

\* the handler up to the call of generate_ai_audio: size, rate limit,
\* unlock_proof and convert_to_wav, in this order
create_checks(d, proof, file, t) ==
  IF file = "too_large" THEN "FILE_TOO_LARGE"
  ELSE IF ~check_rate_limit(d, t) THEN "RATE_LIMITED"
  ELSE IF unlock_proof_check(proof) # "ok" THEN unlock_proof_check(proof)
  ELSE IF file = "not_audio" THEN "AudioProcessingError"
  ELSE "ok"

\* a client posts the form; the only await that reads shared state is the
\* SELECT of check_rate_limit
CreateStart(c, d, proof, file) ==
  LET call == [IdleCreate EXCEPT !.did = d, !.proof = proof, !.began = now]
      code == create_checks(d, proof, file, now)
  IN /\ CanCreate(c)
     /\ creates' = [creates EXCEPT ![c] =
                      IF code = "ok" THEN [call EXCEPT !.pc = "synth"]
                      ELSE Answered(call, code)]
     /\ UNCHANGED <<now, shareVars, unlockVars, lastAudio, ttsVars>>

\* generate_ai_audio returns or raises TTSVCError (503 MODEL_FAILED); on
\* return the service create_share is entered and computes expires_at.
\* The handler sees the result of the call only; the requests the call
\* sends to the provider are CloneEnroll, CloneSynthesize, CloneDeleteVoice
SynthesisOutcomes == {"ok", "TTSVCError"}

CreateSynthesize(c, outcome) ==
  /\ creates[c].pc = "synth"
  /\ creates' = [creates EXCEPT ![c] =
                   IF outcome = "ok"
                     THEN [@ EXCEPT !.pc = "upload", !.attempt = 0,
                                    !.expires = now + ShareTtlSeconds]
                     ELSE Answered(@, "MODEL_FAILED")]
  /\ UNCHANGED <<now, shareVars, unlockVars, lastAudio, ttsVars>>

\* put_object succeeds (replacing whatever the key held) or raises
UploadOutcomes == {"ok", "error"}

\* share_id = generate_share_id(); storage.upload_audio(share_id, bytes);
\* an upload that raises is logged and raised again
CreateUpload(c, sid, outcome) ==
  /\ creates[c].pc = "upload"
  /\ IF outcome = "ok"
       THEN /\ blobs' = blobs \cup {sid}
            /\ creates' = [creates EXCEPT ![c] =
                             [@ EXCEPT !.pc = "insert", !.sid = sid,
                                       !.put = @ \cup {sid}]]
       ELSE /\ blobs' = blobs
            /\ creates' = [creates EXCEPT ![c] = Answered(@, "upload_error")]
  /\ UNCHANGED <<now, shares, calls, sweep, served, outcomes, deletes, blobFailed,
                 unlockVars, lastAudio, ttsVars>>

\* the INSERT either goes through, hits the primary key (IntegrityError) or
\* fails for another reason (the connection, a timeout)
InsertOutcomes == {"ok", "db_error"}

\* created_at is the server default now(), the start time of the inserting
\* transaction: the transaction check_rate_limit began, or after the
\* rollback of a conflict the one the next insert begins
created_at_default(call, t) == IF call.attempt = 0 THEN call.began ELSE t

\* db.add(share); await db.commit(): a row with this share_id exists ->
\* IntegrityError -> rollback, on to the storage delete; any other error
\* leaves create_share as it is (only IntegrityError is caught)
CreateInsert(c, outcome) ==
  LET call == creates[c]
  IN /\ call.pc = "insert"
     /\ IF outcome = "db_error"
          THEN /\ shares' = shares
               /\ creates' = [creates EXCEPT ![c] = Answered(call, "db_error")]
          ELSE IF shares[call.sid].status # "none"
          THEN /\ shares' = shares
               /\ creates' = [creates EXCEPT ![c] =
                                [@ EXCEPT !.pc = "cleanup", !.began = 0]]
          ELSE /\ shares' = [shares EXCEPT ![call.sid] =
                               ShareRow(call.did, created_at_default(call, now),
                                        call.expires)]
               /\ creates' = [creates EXCEPT ![c] = Answered(call, "ok")]
     /\ UNCHANGED <<now, blobs, calls, sweep, served, outcomes, deletes, blobFailed,
                    unlockVars, lastAudio, ttsVars>>

\* the ids that still hold an object of the request after delete_audio(sid)
put_after_cleanup(put, sid, outcome) ==
  IF outcome = "ok" THEN put \ {sid} ELSE put

last_attempt_never(attempt) == FALSE

\* if attempt == 2
last_attempt(attempt) == attempt = MaxAttempts - 1

\* except IntegrityError: await run_in_threadpool(storage.delete_audio,
\* share_id), its result unused; after the third conflict RuntimeError,
\* else the next attempt
CreateCleanup(c, outcome) ==
  LET call == creates[c]
      left == [call EXCEPT !.put = put_after_cleanup(call.put, call.sid, outcome)]
  IN /\ call.pc = "cleanup"
     /\ blobs' = blobs_after_delete(call.sid, outcome)
     /\ blobFailed' = failed_after_delete(call.sid, outcome)
     /\ creates' = [creates EXCEPT ![c] =
                      IF outcome = "other_error" THEN Answered(left, "storage_error")
                      ELSE IF last_attempt(call.attempt) THEN Answered(left, "RuntimeError")
                      ELSE [left EXCEPT !.pc = "upload", !.attempt = @ + 1, !.sid = 0]]
     /\ UNCHANGED <<now, shares, calls, sweep, served, outcomes, deletes,
                    unlockVars, lastAudio, ttsVars>>

(* -------------------------------- clock -------------------------------- *)

ShareTick ==
  /\ now + ShareTickSeconds <= MaxShareTime
  /\ now' = now + ShareTickSeconds
  /\ UNCHANGED <<shareVars, unlockVars, flowVars>>

(* ------------------------- generate_ai_audio --------------------------- *)

\* voice: the voice_name enroll_voice returned (0 while the call has none);
\* result: what the call returns or raises
IdleClone == [pc |-> "idle", voice |-> 0, result |-> "none"]

\* the calls are interchangeable: call c is the c-th to arrive
CanClone(c) ==
  /\ clones[c].pc = "idle"
  /\ \A b \in CloneIds : b < c => clones[b].pc # "idle"

\* the POST of enroll_voice: the provider registers a profile and answers
\* 200 with its name, answers with another status, or answers 200 without
\* output.voice
EnrollOutcomes == {"ok", "http_error", "no_voice"}

\* voice_name = await enroll_voice(audio_bytes): the profile of call c gets
\* a name of its own; a failed enrollment raises TTSVCError before the try
CloneEnroll(c, outcome) ==
  /\ CanClone(c)
  /\ IF outcome = "ok"
       THEN /\ voices' = voices \cup {c}
            /\ clones' = [clones EXCEPT ![c] = [@ EXCEPT !.pc = "enrolled", !.voice = c]]
       ELSE /\ voices' = voices
            /\ clones' = [clones EXCEPT ![c] = [@ EXCEPT !.pc = "done", !.result = "TTSVCError"]]
  /\ UNCHANGED <<now, shareVars, unlockVars, creates, lastAudio>>

\* _tts_via_http returns the audio, raises TTSVCError (a status other than
\* 200, no audio url), or raises what aiohttp raises
TtsOutcomes == {"audio", "TTSVCError", "ClientError"}

\* ai_audio = await _tts_via_http(voice_name, script); either way the
\* finally block runs next
CloneSynthesize(c, outcome) ==
  /\ clones[c].pc = "enrolled"
  /\ clones' = [clones EXCEPT ![c] = [@ EXCEPT !.pc = "finally", !.result = outcome]]
  /\ UNCHANGED <<now, shareVars, unlockVars, creates, lastAudio, voices>>

\* the POST of delete_voice: the provider removes the profile and answers
\* 200, answers with another status (logged as a warning), or the request
\* raises (caught and logged)
DeleteVoiceOutcomes == {"ok", "http_error", "exception"}

voices_after_delete(voice, outcome) ==
  IF outcome = "ok" THEN voices \ {voice} ELSE voices

\* finally: await delete_voice(voice_name), which never raises; then the
\* call returns the audio or raises what the synthesis raised
CloneDeleteVoice(c, outcome) ==
  /\ clones[c].pc = "finally"
  /\ voices' = voices_after_delete(clones[c].voice, outcome)
  /\ clones' = [clones EXCEPT ![c] = [@ EXCEPT !.pc = "done"]]
  /\ UNCHANGED <<now, shareVars, unlockVars, creates, lastAudio>>

(* ------------------------------ unlock tokens -------------------------- *)

\* _METHODS = {"CREDIT", "BONUS"}
Methods == {"CREDIT", "BONUS"}

\* the method strings a client sends to POST /api/unlock/issue
RawMethods == {"CREDIT", "BONUS", " credit ", "GIFT"}

\* method.strip().upper()
strip_upper(raw) == IF raw = " credit " THEN "CREDIT" ELSE raw

\* no row for the device
NoWallet == [credits |-> 0, bonus_used |-> FALSE, exists |-> FALSE]

\* INSERT INTO device_wallets (device_id, credits, bonus_used) VALUES (:id, 100, false)
DefaultWallet == [credits |-> DefaultCredits, bonus_used |-> FALSE, exists |-> TRUE]

\* _sign: HMAC-SHA256 of the payload part under settings.secret_key; without
\* the key the only signatures a client holds are those of issued payloads
_sign(payload) == <<"hmac_sha256", payload>>

\* payload_part + "." + sig_part
MakeToken(jti, did, m, exp) ==
  LET payload == [v |-> 1, jti |-> jti, did |-> did, m |-> m, exp |-> exp]
  IN [parts |-> 2, payload |-> payload, sig |-> _sign(payload)]

\* what a client can build from an issued token without the key: the same
\* signature on a payload naming another device or a later expiry, or a
\* string that does not split into two parts
Retargeted(tok, d) == [tok EXCEPT !.payload.did = d]

Extended(tok) == [tok EXCEPT !.payload.exp = @ + TokenTtlSeconds]

Truncated(tok) == [tok EXCEPT !.parts = 1]

Presentable ==
  tokens
    \cup {Retargeted(t, d) : t \in tokens, d \in Devices}
    \cup {Extended(t) : t \in tokens}
    \cup {Truncated(t) : t \in tokens}

NoToken == MakeToken(0, 0, "", 0)

\* what an observer knows of the arguments of a consume call: jti, the jti
\* of the token; foreign, it named another device than the caller; signed, it
\* had two parts and carried the signature issued for its payload; expired,
\* its exp lay before the time of the call
NoObs == [jti |-> 0, foreign |-> FALSE, signed |-> FALSE, expired |-> FALSE]

Observed(d, tok, t) ==
  [jti |-> tok.payload.jti,
   foreign |-> (tok.payload.did # d),
   signed |-> (tok.parts = 2 /\ \E i \in tokens :
                 i.payload = tok.payload /\ i.sig = tok.sig),
   expired |-> (tok.payload.exp < t)]

\* did, tok: the arguments; view: the wallet object of the session;
\* inserted: the session has inserted the wallet row
IdleConsume ==
  [pc |-> "idle", did |-> 0, tok |-> NoToken, view |-> NoWallet,
   inserted |-> FALSE, obs |-> NoObs]

DoneConsume == [IdleConsume EXCEPT !.pc = "done"]

\* a client calls consume_unlock_token(db, d, tok) at time t
Started(d, tok, t) ==
  [IdleConsume EXCEPT !.pc = "checked", !.did = d, !.tok = tok,
                      !.obs = Observed(d, tok, t)]

\* the call that ended last: the error code it raised or the method it
\* returned, and its arguments
NoConsume == [code |-> "none", obs |-> NoObs]

\* call c ends with this code
Ended(c, call, code) ==
  /\ consumes' = [consumes EXCEPT ![c] = DoneConsume]
  /\ lastConsume' = [code |-> code, obs |-> call.obs]

NoIssue == [did |-> 0, method |-> "", code |-> "none"]

\* the consume_unlock_token calls that have returned the method of this jti
Reports(jti) == Cardinality({r \in reported : r[1] = jti})

\* rows of unlock_token_uses with this primary key
UsesOf(jti) == {u \in uses : u.jti = jti}

(* --------------------- _ensure_wallet / issue_unlock_token ------------- *)

\* another transaction has inserted the wallet row of d and not yet ended
InsertPending(d) ==
  \E c \in ConsumeIds :
    consumes[c].pc = "returned" /\ consumes[c].did = d /\ consumes[c].inserted

\* another transaction holds the wallet row of d (FOR UPDATE or its own insert)
LockHeld(d) ==
  \E c \in ConsumeIds : consumes[c].pc = "returned" /\ consumes[c].did = d

\* INSERT ... ON CONFLICT DO NOTHING, then SELECT: the row this transaction sees
ensured_wallet(d) == IF wallets[d].exists THEN wallets[d] ELSE DefaultWallet

issue_check(m, wallet) ==
  IF m \notin Methods THEN "INVALID_UNLOCK_METHOD"
  ELSE IF m = "CREDIT" /\ wallet.credits <= 0 THEN "UNLOCK_REQUIRED"
  ELSE IF m = "BONUS" /\ wallet.bonus_used THEN "UNLOCK_REQUIRED"
  ELSE "ok"

wallets_reset_by_issue(d) == [wallets EXCEPT ![d] = DefaultWallet]

\* the committed wallets after issue_unlock_token: ON CONFLICT DO NOTHING
\* leaves an existing row alone, nothing else writes, and the session of the
\* handler is closed without a commit, so the insert for a new device is
\* rolled back
wallets_after_issue(d) == wallets

\* POST /api/unlock/issue: issue_unlock_token in a session that is closed
\* without a commit.  The clients stop asking once cap tokens are out.
IssueUnlock(d, raw, cap) ==
  LET m == strip_upper(raw)
      code == issue_check(m, ensured_wallet(d))
  IN /\ nextJti <= cap
     /\ m \in Methods => ~InsertPending(d)
     /\ IF code = "ok"
          THEN /\ tokens' = tokens \cup {MakeToken(nextJti, d, m, now + TokenTtlSeconds)}
               /\ nextJti' = nextJti + 1
          ELSE /\ tokens' = tokens
               /\ nextJti' = nextJti
     /\ lastIssue' = [did |-> d, method |-> m, code |-> code]
     /\ wallets' = IF m \in Methods THEN wallets_after_issue(d) ELSE wallets
     /\ UNCHANGED <<now, shareVars, flowVars, uses, consumes, lastConsume, reported>>

(* ------------------- _verify_and_parse / consume_unlock_token ---------- *)

\* the calls are interchangeable: call c is the c-th request to arrive
CanConsume(c) ==
  /\ consumes[c].pc = "idle"
  /\ \A b \in ConsumeIds : b < c => consumes[b].pc # "idle"

verify_and_parse_expiry_first(tok, t) ==
  IF tok.payload.exp < t THEN "UNLOCK_TOKEN_EXPIRED"
  ELSE IF tok.parts # 2 THEN "INVALID_UNLOCK_TOKEN"
  ELSE IF _sign(tok.payload) # tok.sig THEN "INVALID_UNLOCK_TOKEN"
  ELSE "ok"

\* _verify_and_parse: structure, signature, expiry
verify_and_parse(tok, t) ==
  IF tok.parts # 2 THEN "INVALID_UNLOCK_TOKEN"
  ELSE IF _sign(tok.payload) # tok.sig THEN "INVALID_UNLOCK_TOKEN"
  ELSE IF tok.payload.exp < t THEN "UNLOCK_TOKEN_EXPIRED"
  ELSE "ok"

\* consume_unlock_token up to the lookup of the jti: _verify_and_parse, then
\* the device match, then the method and jti fields
consume_checks_any_device(d, tok, t) ==
  IF verify_and_parse(tok, t) # "ok" THEN verify_and_parse(tok, t)
  ELSE IF tok.payload.m \notin Methods \/ tok.payload.jti = 0 THEN "INVALID_UNLOCK_TOKEN"
  ELSE "ok"

consume_checks(d, tok, t) ==
  IF verify_and_parse(tok, t) # "ok" THEN verify_and_parse(tok, t)
  ELSE IF tok.payload.did # d THEN "INVALID_UNLOCK_TOKEN"
  ELSE IF tok.payload.m \notin Methods \/ tok.payload.jti = 0 THEN "INVALID_UNLOCK_TOKEN"
  ELSE "ok"

token_used_never(jti) == FALSE

\* used = await db.get(UnlockTokenUse, jti)
token_used(jti) == UsesOf(jti) # {}

ConsumeGet_charges_replay(c, d, tok) ==
  LET call == Started(d, tok, now)
      code == consume_checks(d, tok, now)
  IN /\ CanConsume(c)
     /\ IF code # "ok" THEN Ended(c, call, code) /\ wallets' = wallets
        ELSE IF token_used(tok.payload.jti)
          THEN /\ Ended(c, call, "UNLOCK_TOKEN_USED")
               /\ wallets' = [wallets EXCEPT ![d] =
                                [ensured_wallet(d) EXCEPT !.credits = @ - 1]]
        ELSE /\ consumes' = [consumes EXCEPT ![c] = call]
             /\ lastConsume' = lastConsume
             /\ wallets' = wallets
     /\ UNCHANGED <<now, shareVars, flowVars, uses, tokens, nextJti, lastIssue, reported>>

\* a client calls consume_unlock_token(db, d, tok): the checks that touch no
\* database, then the lookup of the jti (the first await of the call)
ConsumeGet(c, d, tok) ==
  LET call == Started(d, tok, now)
      code == consume_checks(d, tok, now)
  IN /\ CanConsume(c)
     /\ IF code # "ok" THEN Ended(c, call, code)
        ELSE IF token_used(tok.payload.jti) THEN Ended(c, call, "UNLOCK_TOKEN_USED")
        ELSE /\ consumes' = [consumes EXCEPT ![c] = call]
             /\ lastConsume' = lastConsume
     /\ UNCHANGED <<now, shareVars, flowVars, wallets, uses, tokens, nextJti, lastIssue, reported>>

spend_check_skipped(m, wallet) == "ok"

\* the eligibility re-check under the row lock
spend_check(m, wallet) ==
  IF m = "CREDIT" /\ wallet.credits <= 0 THEN "UNLOCK_REQUIRED"
  ELSE IF m = "BONUS" /\ wallet.bonus_used THEN "UNLOCK_REQUIRED"
  ELSE "ok"

spend_free(m, wallet) == wallet

spend_keeps_bonus(m, wallet) ==
  IF m = "CREDIT" THEN [wallet EXCEPT !.credits = @ - 1] ELSE wallet

\* wallet.credits -= 1  /  wallet.bonus_used = True
spend(m, wallet) ==
  IF m = "CREDIT" THEN [wallet EXCEPT !.credits = @ - 1]
  ELSE [wallet EXCEPT !.bonus_used = TRUE]

\* INSERT ... ON CONFLICT DO NOTHING; SELECT ... FOR UPDATE (waits while
\* another transaction holds the row); the eligibility check, the change of
\* the wallet object and db.add(UnlockTokenUse(...)); return method.
\* UnlockError ends the session with a rollback.
ConsumeLock(c) ==
  LET call == consumes[c]
      m == call.tok.payload.m
      wallet == ensured_wallet(call.did)
  IN /\ call.pc = "checked"
     /\ ~LockHeld(call.did)
     /\ IF spend_check(m, wallet) = "ok"
          THEN /\ consumes' = [consumes EXCEPT ![c] =
                    [@ EXCEPT !.pc = "returned", !.view = spend(m, wallet),
                              !.inserted = ~wallets[call.did].exists]]
               /\ reported' = reported \cup {<<call.tok.payload.jti, Reports(call.tok.payload.jti) + 1>>}
               /\ lastConsume' = lastConsume
          ELSE /\ Ended(c, call, spend_check(m, wallet))
               /\ UNCHANGED reported
     /\ UNCHANGED <<now, shareVars, flowVars, wallets, uses, tokens, nextJti, lastIssue>>

ConsumeCommit_keeps_debit(c) ==
  LET call == consumes[c]
      jti == call.tok.payload.jti
  IN /\ call.pc = "returned"
     /\ wallets' = [wallets EXCEPT ![call.did] = call.view]
     /\ IF UsesOf(jti) # {}
          THEN /\ UNCHANGED uses
               /\ Ended(c, call, "IntegrityError")
          ELSE /\ uses' = uses \cup {[jti |-> jti, device_id |-> call.did,
                                      method |-> call.tok.payload.m]}
               /\ Ended(c, call, call.tok.payload.m)
     /\ UNCHANGED <<now, shareVars, flowVars, tokens, nextJti, lastIssue, reported>>

\* the caller commits the session: the flush writes the wallet row and
\* inserts the unlock_token_uses row; a duplicate jti violates the primary
\* key, raises IntegrityError and rolls the whole transaction back
ConsumeCommit(c) ==
  LET call == consumes[c]
      jti == call.tok.payload.jti
  IN /\ call.pc = "returned"
     /\ IF UsesOf(jti) # {}
          THEN /\ UNCHANGED <<wallets, uses>>
               /\ Ended(c, call, "IntegrityError")
          ELSE /\ wallets' = [wallets EXCEPT ![call.did] = call.view]
               /\ uses' = uses \cup {[jti |-> jti, device_id |-> call.did,
                                      method |-> call.tok.payload.m]}
               /\ Ended(c, call, call.tok.payload.m)
     /\ UNCHANGED <<now, shareVars, flowVars, tokens, nextJti, lastIssue, reported>>

\* the request is over; the next request of the client uses a new session
ConsumeReset(c) ==
  /\ consumes[c].pc = "done"
  /\ consumes' = [consumes EXCEPT ![c] = IdleConsume]
  /\ UNCHANGED <<now, shareVars, flowVars, wallets, uses, tokens, nextJti, lastIssue, lastConsume, reported>>

UnlockTick ==
  /\ now + UnlockTickSeconds <= MaxUnlockTime
  /\ now' = now + UnlockTickSeconds
  /\ UNCHANGED <<shareVars, unlockVars, flowVars>>

(* ------------------------- the share lifecycle ------------------------- *)

\* nothing has reached the unlock service
\* no create request and no audio request has arrived
NoFlowActivity ==
  /\ creates = [c \in CreateIds |-> IdleCreate]
  /\ lastAudio = NoAudio
  /\ voices = {}
  /\ clones = [c \in CloneIds |-> IdleClone]

NoUnlockActivity ==
  /\ wallets = [d \in Devices |-> NoWallet]
  /\ uses = {}
  /\ tokens = {}
  /\ nextJti = 1
  /\ consumes = [c \in ConsumeIds |-> IdleConsume]
  /\ lastIssue = NoIssue
  /\ lastConsume = NoConsume
  /\ reported = {}

\* every share row was inserted by create_share at time 0 with its object
\* uploaded, and has since been viewed fewer than max_clicks times
ShareInit ==
  /\ now = 0
  /\ shares \in [ShareIds -> {[NewShare(0) EXCEPT !.click_count = k] :
                                k \in 0..(ShareMaxClicks - 1)}]
  /\ \A s, t \in ShareIds : s < t => shares[s].click_count <= shares[t].click_count
  /\ blobs = ShareIds
  /\ calls = [c \in CallIds |-> IdleCall]
  /\ sweep = IdleSweep
  /\ served = [s \in ShareIds |-> {}]
  /\ outcomes = [s \in ShareIds |-> NoOutcomes]
  /\ deletes = [s \in ShareIds |-> 0]
  /\ blobFailed = {}
  /\ NoUnlockActivity
  /\ NoFlowActivity

ShareNext ==
  \/ \E c \in CallIds, s \in ShareIds : access_share(c, s)
  \/ \E c \in CallIds, o \in StorageOutcomes : DeleteStorage(c, o)
  \/ \E c \in CallIds : DeleteDb(c)
  \/ SweepScan
  \/ \E s \in ShareIds, o \in StorageOutcomes : SweepDeleteStorage(s, o)
  \/ SweepDeleteDb
  \/ ShareTick

Spec == ShareInit /\ [][ShareNext]_vars

(* --------------------------- the unlock service ------------------------ *)

\* every device is new: no wallet row, no token, no use row
UnlockInit ==
  /\ now = 0
  /\ shares = [s \in ShareIds |-> NewShare(0)]
  /\ blobs = ShareIds
  /\ calls = [c \in CallIds |-> IdleCall]
  /\ sweep = IdleSweep
  /\ served = [s \in ShareIds |-> {}]
  /\ outcomes = [s \in ShareIds |-> NoOutcomes]
  /\ deletes = [s \in ShareIds |-> 0]
  /\ blobFailed = {}
  /\ NoUnlockActivity
  /\ NoFlowActivity

UnlockNext ==
  \/ \E d \in Devices, raw \in RawMethods : IssueUnlock(d, raw, MaxTokens)
  \/ \E c \in ConsumeIds, d \in Devices, tok \in Presentable : ConsumeGet(c, d, tok)
  \/ \E c \in ConsumeIds : ConsumeLock(c)
  \/ \E c \in ConsumeIds : ConsumeCommit(c)
  \/ UnlockTick

UnlockSpec == UnlockInit /\ [][UnlockNext]_vars

(* ------------------- issue + consume, one round at a time -------------- *)

\* a new device
RoundsInit == UnlockInit

\* the tokens that have been issued and not consumed
Unspent == {t \in tokens : UsesOf(t.payload.jti) = {}}

\* device 1 asks for a CREDIT or BONUS token when it holds none, consumes the
\* token it holds, and its caller commits; nothing else runs
RoundsNext ==
  \/ /\ consumes[1].pc = "idle"
     /\ Unspent = {}
     /\ \E raw \in Methods : IssueUnlock(1, raw, DefaultCredits + 2)
  \/ \E tok \in Unspent : ConsumeGet(1, 1, tok)
  \/ ConsumeLock(1)
  \/ ConsumeCommit(1)
  \/ ConsumeReset(1)

RoundsSpec == RoundsInit /\ [][RoundsNext]_vars

(* ------------------- several shares, viewed and swept ------------------ *)

\* the shares of device 1, each made at time 0 with its object uploaded and
\* either never viewed or one view short of its click limit
FrameInit ==
  /\ now = 0
  /\ shares \in [SweptIds -> {[NewShare(0) EXCEPT !.click_count = k] :
                                k \in {0, ShareMaxClicks - 1}}]
  /\ \A s, t \in SweptIds : s < t => shares[s].click_count <= shares[t].click_count
  /\ blobs = SweptIds
  /\ calls = [c \in CallIds |-> IdleCall]
  /\ sweep = IdleSweep
  /\ served = [s \in SweptIds |-> {}]
  /\ outcomes = [s \in SweptIds |-> NoOutcomes]
  /\ deletes = [s \in SweptIds |-> 0]
  /\ blobFailed = {}
  /\ NoUnlockActivity
  /\ NoFlowActivity

\* GET /s/{share_id} requests on any of the shares, the deletes they start,
\* and the clock
FrameNext ==
  \/ \E c \in CallIds, s \in SweptIds : access_share(c, s)
  \/ \E c \in CallIds, o \in StorageOutcomes : DeleteStorage(c, o)
  \/ \E c \in CallIds : DeleteDb(c)
  \/ ShareTick

FrameSpec == FrameInit /\ [][FrameNext]_vars

(* ------------------------- the voice synthesis -------------------------- *)

\* no call has been made and the provider holds no profile of this service
TtsInit ==
  /\ now = 0
  /\ shares = [s \in ShareIds |-> NewShare(0)]
  /\ blobs = ShareIds
  /\ calls = [c \in CallIds |-> IdleCall]
  /\ sweep = IdleSweep
  /\ served = [s \in ShareIds |-> {}]
  /\ outcomes = [s \in ShareIds |-> NoOutcomes]
  /\ deletes = [s \in ShareIds |-> 0]
  /\ blobFailed = {}
  /\ NoUnlockActivity
  /\ NoFlowActivity

\* concurrent generate_ai_audio calls
TtsNext ==
  \/ \E c \in CloneIds, o \in EnrollOutcomes : CloneEnroll(c, o)
  \/ \E c \in CloneIds, o \in TtsOutcomes : CloneSynthesize(c, o)
  \/ \E c \in CloneIds, o \in DeleteVoiceOutcomes : CloneDeleteVoice(c, o)

TtsSpec == TtsInit /\ [][TtsNext]_vars

(* ------------------- a wallet that is nearly spent ---------------------- *)

\* the unlock_token_uses rows of the CREDIT tokens device 1 has consumed
\* before: their jti lie beyond those of the tokens issued in this run
SpentRows(left) ==
  {[jti |-> WalletTokens + k, device_id |-> 1, method |-> "CREDIT"] :
     k \in 1..(DefaultCredits - left)}

\* device 1 has consumed all but 1..StartCredits of its credits and has not
\* used its bonus; the other devices are new
WalletInit ==
  /\ now = 0
  /\ shares = [s \in ShareIds |-> NewShare(0)]
  /\ blobs = ShareIds
  /\ calls = [c \in CallIds |-> IdleCall]
  /\ sweep = IdleSweep
  /\ served = [s \in ShareIds |-> {}]
  /\ outcomes = [s \in ShareIds |-> NoOutcomes]
  /\ deletes = [s \in ShareIds |-> 0]
  /\ blobFailed = {}
  /\ \E left \in 1..StartCredits :
       /\ wallets = [d \in Devices |->
                       IF d = 1 THEN [DefaultWallet EXCEPT !.credits = left]
                       ELSE NoWallet]
       /\ uses = SpentRows(left)
  /\ tokens = {}
  /\ nextJti = 1
  /\ consumes = [c \in ConsumeIds |-> IdleConsume]
  /\ lastIssue = NoIssue
  /\ lastConsume = NoConsume
  /\ reported = {}
  /\ NoFlowActivity

\* device 1 is issued CREDIT and BONUS tokens and presents them in up to
\* MaxConsumes concurrent requests, each committed by its caller
WalletNext ==
  \/ \E raw \in Methods : IssueUnlock(1, raw, WalletTokens)
  \/ \E c \in ConsumeIds, tok \in tokens : ConsumeGet(c, 1, tok)
  \/ \E c \in ConsumeIds : ConsumeLock(c)
  \/ \E c \in ConsumeIds : ConsumeCommit(c)
  \/ \E c \in ConsumeIds : ConsumeReset(c)

WalletSpec == WalletInit /\ [][WalletNext]_vars

(* ------------------------- creating shares ----------------------------- *)

\* each share_id is free or holds a share that device 1 made at time 0,
\* with its object uploaded
CreateInit ==
  /\ now = 0
  /\ shares \in [ShareIds -> {NoShare, NewShare(0)}]
  /\ blobs = {s \in ShareIds : shares[s].status # "none"}
  /\ calls = [c \in CallIds |-> IdleCall]
  /\ sweep = IdleSweep
  /\ served = [s \in ShareIds |-> {}]
  /\ outcomes = [s \in ShareIds |-> NoOutcomes]
  /\ deletes = [s \in ShareIds |-> 0]
  /\ blobFailed = {}
  /\ NoUnlockActivity
  /\ NoFlowActivity

CreateNext ==
  \/ \E c \in CreateIds, d \in Devices, proof \in Proofs, file \in Files :
       CreateStart(c, d, proof, file)
  \/ \E c \in CreateIds, o \in SynthesisOutcomes : CreateSynthesize(c, o)
  \/ \E c \in CreateIds, s \in ShareIds, o \in UploadOutcomes : CreateUpload(c, s, o)
  \/ \E c \in CreateIds, o \in InsertOutcomes : CreateInsert(c, o)
  \/ \E c \in CreateIds, o \in StorageOutcomes : CreateCleanup(c, o)
  \/ ShareTick

CreateSpec == CreateInit /\ [][CreateNext]_vars

(* ------------------- create requests, one after another ---------------- *)

\* enough share ids for one row more than the ceiling of a device
RateIds == 1..(RateLimitPerDevice + 1)

\* the response is sent; the next request of the client is a new one
CreateReset(c) ==
  /\ creates[c].pc = "done"
  /\ creates' = [creates EXCEPT ![c] = IdleCreate]
  /\ UNCHANGED <<now, shareVars, unlockVars, lastAudio, ttsVars>>

\* the shares table is empty and no object is in the bucket
SeqCreateInit ==
  /\ now = 0
  /\ shares = [s \in RateIds |-> NoShare]
  /\ blobs = {}
  /\ calls = [c \in CallIds |-> IdleCall]
  /\ sweep = IdleSweep
  /\ served = [s \in RateIds |-> {}]
  /\ outcomes = [s \in RateIds |-> NoOutcomes]
  /\ deletes = [s \in RateIds |-> 0]
  /\ blobFailed = {}
  /\ NoUnlockActivity
  /\ NoFlowActivity

\* device 1 posts create requests with a recording, with a proof or with
\* the literal NONE, one at a time: each is answered before the next is sent
SeqCreateNext ==
  \/ \E proof \in Proofs \ {""} : CreateStart(1, 1, proof, "audio")
  \/ \E o \in SynthesisOutcomes : CreateSynthesize(1, o)
  \/ \E s \in RateIds, o \in UploadOutcomes : CreateUpload(1, s, o)
  \/ \E o \in InsertOutcomes : CreateInsert(1, o)
  \/ \E o \in StorageOutcomes : CreateCleanup(1, o)
  \/ CreateReset(1)
  \/ ShareTick

SeqCreateSpec == SeqCreateInit /\ [][SeqCreateNext]_vars

(* ------------------------- the rate limit ------------------------------ *)

\* the values of the status column (ShareStatus)
Statuses == {"active", "deleted", "failed"}

\* each share_id is free or holds a row that some device made at time 0, in
\* any of the three statuses (failed is what mark_failed writes); the object
\* of an active share is in the bucket
RateInit ==
  /\ now = 0
  /\ shares \in [ShareIds -> {NoShare} \cup
                     {[ShareRow(d, 0, ShareTtlSeconds) EXCEPT !.status = st] :
                        d \in Devices, st \in Statuses}]
  /\ blobs = {s \in ShareIds : shares[s].status = "active"}
  /\ calls = [c \in CallIds |-> IdleCall]
  /\ sweep = IdleSweep
  /\ served = [s \in ShareIds |-> {}]
  /\ outcomes = [s \in ShareIds |-> NoOutcomes]
  /\ deletes = [s \in ShareIds |-> 0]
  /\ blobFailed = {}
  /\ NoUnlockActivity
  /\ NoFlowActivity

\* create requests arrive and pass or fail the checks of the handler, at
\* any time inside or after the window of the rows
RateNext ==
  \/ \E c \in CreateIds, d \in Devices, proof \in Proofs, file \in Files :
       CreateStart(c, d, proof, file)
  \/ ShareTick

RateSpec == RateInit /\ [][RateNext]_vars

(* ------------------ access to shares of any status -------------------- *)

\* the access requests on a table whose ids are free or hold an active, a
\* deleted or a failed share
AccessInit == RateInit

AccessNext ==
  \/ \E c \in CallIds, s \in ShareIds : access_share(c, s)
  \/ \E c \in CallIds, o \in StorageOutcomes : DeleteStorage(c, o)
  \/ \E c \in CallIds : DeleteDb(c)
  \/ ShareTick

AccessSpec == AccessInit /\ [][AccessNext]_vars

(* ------------------- the sweep and the audio endpoint ------------------ *)

\* the shares the sweep finds: each was made at time 0 with its object
\* uploaded and is still active, never viewed or left at its click limit by
\* an access whose storage delete raised, or has been marked failed
SweepInit ==
  /\ now = 0
  /\ shares \in [SweptIds -> {[NewShare(0) EXCEPT !.click_count = k] :
                                k \in {0, ShareMaxClicks}}
                              \cup {[NewShare(0) EXCEPT !.status = "failed"]}]
  /\ \A s, t \in SweptIds : s < t => shares[s].click_count <= shares[t].click_count
  /\ blobs = SweptIds
  /\ calls = [c \in CallIds |-> IdleCall]
  /\ sweep = IdleSweep
  /\ served = [s \in SweptIds |-> {}]
  /\ outcomes = [s \in SweptIds |-> NoOutcomes]
  /\ deletes = [s \in SweptIds |-> 0]
  /\ blobFailed = {}
  /\ NoUnlockActivity
  /\ NoFlowActivity

\* the periodic job, the audio requests (0: an id no row has) and the clock
SweepNext ==
  \/ SweepScan
  \/ \E s \in SweptIds, o \in StorageOutcomes : SweepDeleteStorage(s, o)
  \/ SweepDeleteDb
  \/ SweepSkip
  \/ \E s \in SweptIds \cup {0} : GetAudio(s)
  \/ ShareTick

SweepSpec == SweepInit /\ [][SweepNext]_vars

\* the periodic job alone, no request touching the shares.  The trigger
\* keeps firing (IntervalTrigger), the database answers the UPDATE of a
\* delete, and the blob store does not fail a delete for ever.
LiveSweepNext ==
  \/ SweepScan
  \/ \E s \in SweptIds, o \in StorageOutcomes : SweepDeleteStorage(s, o)
  \/ SweepDeleteDb
  \/ SweepSkip
  \/ ShareTick

LiveSweepSpec ==
  /\ SweepInit
  /\ [][LiveSweepNext]_vars
  /\ WF_vars(SweepScan)
  /\ WF_vars(SweepDeleteDb)
  /\ \A s \in SweptIds : SF_vars(SweepDeleteStorage(s, "ok"))

(* ------------------------- observations of a run ----------------------- *)

\* the access_share calls on share s that have returned or raised
Finished(s) ==
  Cardinality(served[s]) + outcomes[s].not_found + outcomes[s].error

\* no access_share call on share s is in flight
Quiescent(s) == \A c \in CallIds : calls[c].sid # s

\* click_count of share s before the first call of the run
InitialClicks(s) == shares[s].click_count - outcomes[s].updates

\* the slots share s had left before the first call of the run
InitialSlots(s) == shares[s].max_clicks - InitialClicks(s)

(* -------------------------------- claims ------------------------------- *)

\* C1: for an active, not time-expired share with r slots left, K finished
\* access calls (in any interleaving) contain exactly min(K, r) calls that
\* returned the share.
C1_ExactlyMinSuccesses ==
  \A s \in ShareIds :
    (Quiescent(s) /\ now < shares[s].expires_at)
      => Cardinality(served[s]) = Min(Finished(s), InitialSlots(s))

\* C2: the stored click_count of every share is at most its max_clicks in
\* every reachable state.
C2_ClickCountWithinMax ==
  \A s \in ShareIds : shares[s].click_count <= shares[s].max_clicks

\* C3: access never returns a row that is expired by count or by time when
\* is_expired looks at it: it calls delete_share instead, and once
\* delete_share returns the caller gets None (the only other way out is the
\* exception of a failing blob store); every row it did return had
\* click_count < max_clicks.
C3_ExpiredNeverServed ==
  /\ [](\A s \in ShareIds : \A n \in served[s] : n < shares[s].max_clicks)
  /\ [][/\ \A s \in ShareIds :
             (/\ outcomes'[s].updates # outcomes[s].updates
              /\ \/ shares'[s].click_count >= shares'[s].max_clicks
                 \/ now >= shares'[s].expires_at)
               => /\ served' = served
                  /\ \E c \in CallIds :
                       /\ calls[c].pc = "idle"
                       /\ calls'[c] = [sid |-> s, pc |-> "del_storage"]
        /\ \A c \in CallIds :
             LET call == calls[c] IN
             (call.pc \in {"del_storage", "del_db"} /\ calls'[c].pc = "done")
               => /\ served' = served
                  /\ \/ outcomes'[call.sid].not_found = outcomes[call.sid].not_found + 1
                     \/ /\ outcomes'[call.sid].error = outcomes[call.sid].error + 1
                        /\ call.sid \in blobFailed'
     ]_vars

\* C3 witness: a share deleted by the access whose increment reached the
\* limit, before its TTL elapsed
C3_Witness ==
  \E s \in ShareIds :
    /\ shares[s].click_count = shares[s].max_clicks
    /\ shares[s].status = "deleted"
    /\ now < shares[s].expires_at
    /\ deletes[s] >= 1
    /\ outcomes[s].not_found >= 1

\* C4: the click_count each UPDATE returns is larger than every count
\* returned before for that share, so no two served rows carry the same
\* count; the stored count never decreases; no served row carries a count
\* above max_clicks.
C4_CountsStrictlyIncrease ==
  /\ [](\A s \in ShareIds : \A n \in served[s] :
          n <= shares[s].max_clicks /\ n <= shares[s].click_count)
  /\ [][\A s \in ShareIds :
          /\ shares'[s].click_count >= shares[s].click_count
          /\ outcomes'[s].updates # outcomes[s].updates
               => /\ shares'[s].click_count > shares[s].click_count
                  /\ \A n \in served[s] : shares'[s].click_count > n
          /\ served'[s] # served[s]
               => /\ outcomes'[s].updates # outcomes[s].updates
                  /\ shares'[s].click_count \notin served[s]
                  /\ served'[s] = served[s] \cup {shares'[s].click_count}
     ]_vars

\* C4 witness: two accesses of one share were served, with different counts
C4_Witness ==
  \E s \in ShareIds : Cardinality(served[s]) >= 2

IssuedMethod(jti) ==
  LET issued == {t \in tokens : t.payload.jti = jti}
  IN IF issued = {} THEN "none" ELSE (CHOOSE t \in issued : TRUE).payload.m

\* the arguments were, for the device it was issued to, a CREDIT token as
\* issue_unlock_token returned it
GenuineCredit(obs) ==
  /\ obs.signed
  /\ ~obs.foreign
  /\ IssuedMethod(obs.jti) = "CREDIT"

\* call c takes this step
Steps(c) == consumes'[c] # consumes[c]

\* the arguments of the call c that takes this step
ObsNext(c) ==
  IF consumes'[c].pc = "done" THEN lastConsume'.obs ELSE consumes'[c].obs

\* C6 as stated: a consume of an issued CREDIT token by its device that
\* starts when the token has already been consumed fails with
\* UNLOCK_TOKEN_USED.
C6_LaterConsumeAlwaysUsed ==
  [][\A c \in ConsumeIds :
       (/\ consumes[c].pc = "idle"
        /\ Steps(c)
        /\ GenuineCredit(ObsNext(c))
        /\ UsesOf(ObsNext(c).jti) # {})
         => /\ consumes'[c].pc = "done"
            /\ lastConsume'.code = "UNLOCK_TOKEN_USED"
  ]_vars

\* C6 amended: an issued CREDIT token presented by its device is checked in
\* this order: past its expiry it fails with UNLOCK_TOKEN_EXPIRED; else, once
\* its jti has a use row, it fails with UNLOCK_TOKEN_USED; else, with a
\* credit left in the wallet when the row lock is taken, the call returns
\* CREDIT and its commit debits exactly one credit and records the jti.  No
\* jti ever has two use rows.
C6_RoundTrip ==
  /\ [](\A u1 \in uses : \A u2 \in uses : u1.jti = u2.jti => u1 = u2)
  /\ [][\A c \in ConsumeIds :
          LET call == consumes[c]
              after == consumes'[c]
              jti == ObsNext(c).jti
              ends(code) == after.pc = "done" /\ lastConsume'.code = code
              before == IF wallets[call.did].exists
                          THEN wallets[call.did].credits ELSE DefaultCredits
          IN
          (Steps(c) /\ after.pc # "idle" /\ GenuineCredit(ObsNext(c))) =>
            /\ call.pc = "idle" =>
                 IF ObsNext(c).expired THEN ends("UNLOCK_TOKEN_EXPIRED")
                 ELSE IF UsesOf(jti) # {} THEN ends("UNLOCK_TOKEN_USED")
                 ELSE after.pc = "checked"
            /\ (call.pc = "checked" /\ before > 0) =>
                 /\ after.pc = "returned"
                 /\ after.view.credits = before - 1
                 /\ Cardinality({r \in reported' : r[1] = jti}) = Reports(jti) + 1
            /\ (call.pc = "returned" /\ UsesOf(jti) = {}) =>
                 /\ ends("CREDIT")
                 /\ wallets'[call.did].exists
                 /\ wallets'[call.did].credits = before - 1
                 /\ uses' = uses \cup {[jti |-> jti, device_id |-> call.did,
                                        method |-> "CREDIT"]}
     ]_vars

\* C6 witness: an issued CREDIT token was consumed, and a later consume of it
\* was rejected with UNLOCK_TOKEN_USED
C6_Witness ==
  /\ lastConsume.code = "UNLOCK_TOKEN_USED"
  /\ GenuineCredit(lastConsume.obs)
  /\ \E u \in uses : u.jti = lastConsume.obs.jti /\ u.method = "CREDIT"

\* C7: for every issued token, at most one consume call is told it succeeded
\* (gets the method back), and at most one use row exists.
C7_AtMostOneSpend ==
  \A t \in tokens :
    /\ Reports(t.payload.jti) <= 1
    /\ Cardinality(UsesOf(t.payload.jti)) <= 1

\* C8: in rounds of issue + consume for one device, the balance is the
\* default 100 minus the number of consumed CREDIT tokens and never negative,
\* every consume returns the method of its token, an issue of CREDIT is
\* refused with UNLOCK_REQUIRED only after 100 CREDIT tokens have been
\* consumed, and no 101st CREDIT token is produced.
C8_HundredRounds ==
  LET n == Cardinality({u \in uses : u.method = "CREDIT"})
      made == Cardinality({t \in tokens : t.payload.m = "CREDIT"})
  IN
  /\ n <= DefaultCredits
  /\ made <= DefaultCredits
  /\ wallets[1].exists => wallets[1].credits = DefaultCredits - n
  /\ lastConsume.code \in {"none", "CREDIT", "BONUS"}
  /\ lastIssue.code \in {"none", "ok", "UNLOCK_REQUIRED"}
  /\ (lastIssue.code = "UNLOCK_REQUIRED" /\ lastIssue.method = "CREDIT")
       => (n = DefaultCredits /\ wallets[1].credits = 0)
  /\ (n = DefaultCredits /\ lastIssue.code = "ok" /\ lastIssue.method = "CREDIT")
       => made = DefaultCredits

\* C8 witness: 100 tokens consumed, balance 0, the next issue refused
C8_Witness ==
  /\ Cardinality({u \in uses : u.method = "CREDIT"}) = DefaultCredits
  /\ Cardinality({t \in tokens : t.payload.m = "CREDIT"}) = DefaultCredits
  /\ wallets[1].credits = 0
  /\ lastIssue = [did |-> 1, method |-> "CREDIT", code |-> "UNLOCK_REQUIRED"]

\* C9 as stated: every consume of a token that names another device than the
\* caller ends with INVALID_UNLOCK_TOKEN.
C9_ForeignAlwaysInvalid ==
  lastConsume.obs.foreign => lastConsume.code = "INVALID_UNLOCK_TOKEN"

\* C9 amended: a consume of a token that names another device than the caller
\* is rejected before the database is touched: with UNLOCK_TOKEN_EXPIRED when
\* the token is well formed, correctly signed and past its expiry, with
\* INVALID_UNLOCK_TOKEN in every other case; no wallet and no use row changes.
C9_ForeignRejected ==
  [][\A c \in ConsumeIds :
       (consumes[c].pc = "idle" /\ Steps(c) /\ ObsNext(c).foreign)
         => /\ consumes'[c].pc = "done"
            /\ lastConsume'.code =
                 IF ObsNext(c).signed /\ ObsNext(c).expired
                   THEN "UNLOCK_TOKEN_EXPIRED"
                   ELSE "INVALID_UNLOCK_TOKEN"
            /\ UNCHANGED <<wallets, uses>>
  ]_vars

\* C9 witness: a token issued to one device, unexpired and with its
\* signature intact, was presented by another device and rejected
C9_Witness ==
  /\ lastConsume.obs.foreign
  /\ lastConsume.obs.signed
  /\ ~lastConsume.obs.expired
  /\ lastConsume.obs.jti # 0
  /\ lastConsume.code = "INVALID_UNLOCK_TOKEN"

\* C11: an issue_unlock_token call, whether it returns a token or is refused
\* with UNLOCK_REQUIRED (CREDIT with no credit left, BONUS already used),
\* leaves every committed wallet as it was: an existing wallet keeps its
\* credits and bonus_used, and is never put back to the default balance.
C11_IssueNeverSpends ==
  [][(lastIssue' # lastIssue \/ tokens' # tokens)
       => \A d \in Devices : wallets[d].exists => wallets'[d] = wallets[d]]_vars

\* C11 witness: with a wallet that has spent all its credits and its bonus,
\* an issue was refused with UNLOCK_REQUIRED and the wallet is as it was
C11_Witness ==
  /\ lastIssue.code = "UNLOCK_REQUIRED"
  /\ lastIssue.did = 1
  /\ wallets[1].exists
  /\ wallets[1].credits = 0
  /\ wallets[1].bonus_used
  /\ Cardinality(uses) = DefaultCredits + 1

\* C12: every share the creation flow has persisted was authorised by a
\* successful consume of an unlock token of the creating device: a create
\* request answered with a share finds a committed unlock_token_uses row of
\* its device.
C12_CreatedOnlyAfterConsume ==
  \A c \in CreateIds :
    creates[c].code = "ok" => \E u \in uses : u.device_id = creates[c].did

\* C13: a GET /api/share/{share_id}/audio request is answered with the audio
\* stream exactly when, at the time of the check, the share has a row with
\* status active, click_count < max_clicks and now < expires_at; every other
\* request is answered with not-found (404 SHARE_UNAVAILABLE); no request
\* changes any share row.
C13_AudioOnlyWhenAccessible ==
  [][lastAudio' # lastAudio =>
       LET sid == lastAudio'.sid
       IN /\ lastAudio'.answer \in {"StreamingResponse", "SHARE_UNAVAILABLE"}
          /\ lastAudio'.answer = "StreamingResponse"
               <=> /\ sid \in DOMAIN shares
                   /\ shares[sid].status = "active"
                   /\ shares[sid].click_count < shares[sid].max_clicks
                   /\ now < shares[sid].expires_at
          /\ shares' = shares
  ]_vars

\* C13 witness: an audio request for an active, unexpired share below its
\* click limit was answered with the stream while another share, active at
\* its click limit, is in the table
C13_Witness ==
  /\ lastAudio.answer = "StreamingResponse"
  /\ lastAudio.body
  /\ shares[lastAudio.sid].status = "active"
  /\ shares[lastAudio.sid].click_count < shares[lastAudio.sid].max_clicks
  /\ now < shares[lastAudio.sid].expires_at
  /\ \E s \in DOMAIN shares :
       shares[s].status = "active" /\ shares[s].click_count >= shares[s].max_clicks

\* C14: whatever way the storage delete inside delete_share fails, the call
\* goes on: when a delete_share call started by an access ends, the share has
\* status deleted and the call has returned True.
C14_StorageFailureNotFatal ==
  [][\A c \in CallIds :
       (calls[c].pc \in {"del_storage", "del_db"} /\ calls'[c].pc = "done")
         => /\ shares'[calls[c].sid].status = "deleted"
            /\ deletes'[calls[c].sid] = deletes[calls[c].sid] + 1
  ]_vars

\* C15: a failure while one share is cleaned up does not end the sweep: when
\* a run of cleanup_expired_shares ends, of the shares its scan found and it
\* had not yet deleted at most the one whose cleanup failed is not deleted.
C15_SweepSurvivesFailure ==
  [][(sweep.pc # "idle" /\ sweep'.pc = "idle")
       => Cardinality({s \in sweep.queue : shares'[s].status # "deleted"}) <= 1
  ]_vars

\* C16: never are two instances of the sweep job running: the scheduler
\* counts at most one running instance, a run starts only when none is
\* running, and a trigger that fires during a run is skipped and changes no
\* share and no object.
C16_NoOverlappingSweeps ==
  /\ [](sweep.running = IF sweep.pc = "idle" THEN 0 ELSE 1)
  /\ [][/\ sweep'.running > sweep.running => sweep.running = 0
        /\ (sweep.running >= 1 /\ sweep'.skipped /\ ~sweep.skipped)
             => /\ sweep' = [sweep EXCEPT !.skipped = TRUE]
                /\ shares' = shares
                /\ blobs' = blobs
     ]_vars

\* C16 witness: the trigger fired while a run was between two shares and
\* was skipped
C16_Witness ==
  /\ sweep.skipped
  /\ sweep.running = 1
  /\ sweep.pc = "loop"
  /\ sweep.count >= 1
  /\ sweep.queue # {}

C19_FailedCreateLeavesNothing ==
  /\ [](\A c \in CreateIds :
          (creates[c].pc = "done" /\ creates[c].code # "ok") =>
            \A k \in creates[c].put \cap blobs : k \in blobFailed)
  /\ [][\A c \in CreateIds :
          (creates'[c].pc = "done" /\ creates'[c].code # "ok") => shares' = shares
     ]_vars

\* C20: a create request that was let past the unlock check and then failed
\* in synthesis or a later step leaves a share row of its device with status
\* failed.
C20_FailureRecorded ==
  \A c \in CreateIds :
    creates[c].code \in {"MODEL_FAILED", "upload_error", "db_error",
                          "RuntimeError", "storage_error"}
      => \E s \in ShareIds :
           shares[s].status = "failed" /\ shares[s].device_id = creates[c].did

\* C21: check_rate_limit lets a create request of a device through exactly
\* when fewer than the ceiling of that device's share rows with status
\* active or deleted have created_at inside the trailing window; rows of
\* other devices, failed rows and older rows do not count.  Seen through the
\* handler: a request that is not refused for its size is answered
\* RATE_LIMITED exactly when that number has reached the ceiling.
C21_RateLimitCountsRecent ==
  [][\A c \in CreateIds :
       (creates[c].pc = "idle" /\ creates'[c].pc # "idle"
          /\ creates'[c].code # "FILE_TOO_LARGE")
         => LET d == creates'[c].did
                n == Cardinality({s \in ShareIds :
                       /\ shares[s].status \in {"active", "deleted"}
                       /\ shares[s].device_id = d
                       /\ now - shares[s].created_at <= RateLimitWindowSeconds})
            IN creates'[c].code = "RATE_LIMITED" <=> n >= RateLimitPerDevice
  ]_vars

\* C21 witness: a request was refused with RATE_LIMITED on account of a
\* deleted share of its device that was made exactly one window ago
C21_Witness ==
  \E c \in CreateIds, s \in ShareIds :
    /\ creates[c].code = "RATE_LIMITED"
    /\ shares[s].status = "deleted"
    /\ shares[s].device_id = creates[c].did
    /\ now - shares[s].created_at = RateLimitWindowSeconds

\* C22: no access, delete or sweep step removes a share row: a share_id that
\* has a row has one in every later state, and a row with status deleted
\* stays deleted.
C22_RowsNeverRemoved ==
  [][/\ DOMAIN shares' = DOMAIN shares
     /\ \A s \in DOMAIN shares :
          /\ shares[s].status # "none" => shares'[s].status # "none"
          /\ shares[s].status = "deleted" => shares'[s].status = "deleted"
  ]_vars

\* C22 witness: a share the sweep deleted was accessed afterwards, the
\* access found nothing, and the row is there with status deleted
C22_Witness ==
  \E s \in ShareIds :
    /\ shares[s].status = "deleted"
    /\ shares[s].click_count < shares[s].max_clicks
    /\ sweep.count >= 1
    /\ deletes[s] = 1
    /\ outcomes[s].not_found >= 1

\* C23: the scan of cleanup_expired_shares finds exactly the shares that are
\* active with expires_at <= now; the run deletes these and no others (a
\* share not yet time-expired, even at its click limit, and a failed or
\* deleted share are left as they are), and a run that no exception ends
\* returns the number of shares the scan found.
C23_SweepDeletesExpired ==
  [][/\ (sweep.running = 0 /\ sweep' # sweep)
          => /\ sweep'.queue = {s \in DOMAIN shares :
                                  shares[s].status = "active" /\ shares[s].expires_at <= now}
             /\ sweep'.count = 0
             /\ shares' = shares
             /\ blobs' = blobs
     /\ sweep.running = 1
          => /\ \A s \in DOMAIN shares \ sweep.queue :
                  shares'[s] = shares[s] /\ (s \in blobs <=> s \in blobs')
             /\ sweep'.count # sweep.count
                  => \E s \in sweep.queue :
                       /\ sweep'.queue = sweep.queue \ {s}
                       /\ sweep'.count = sweep.count + 1
                       /\ shares'[s].status = "deleted"
                       /\ s \notin blobFailed => s \notin blobs'
             /\ ~(sweep.pc = "loop" /\ sweep'.pc = "idle")
                  => sweep'.count + Cardinality(sweep'.queue)
                       = sweep.count + Cardinality(sweep.queue)
             /\ (sweep.pc = "del_db" /\ sweep'.pc = "idle") => sweep'.queue = {}
  ]_vars

\* C23 witness: a run found every share that was active and past its
\* expires_at, deleted them all and ended with their number, and a failed
\* share is as it was
C23_Witness ==
  /\ sweep.pc = "idle"
  /\ sweep.count >= 1
  /\ sweep.count = Cardinality({s \in DOMAIN shares : shares[s].status = "deleted"})
  /\ \A s \in DOMAIN shares : shares[s].status = "deleted" => s \notin blobs
  /\ \E s \in DOMAIN shares : shares[s].status = "failed" /\ s \in blobs
  /\ \A s \in DOMAIN shares : shares[s].status # "active"
  /\ blobFailed = {}

\* C24: with the trigger firing again and again and the blob store and the
\* database answering in the end, every active share whose expires_at has
\* passed gets status deleted and its object removed without any access to
\* it.
C24_ExpiredEventuallyGone ==
  \A s \in SweptIds :
    (shares[s].status = "active" /\ shares[s].expires_at <= now)
      ~> (shares[s].status = "deleted" /\ s \notin blobs)

\* C24 as the code has it: under the same assumptions every active share
\* whose expires_at has passed gets status deleted without any access to it,
\* and its object is gone unless the blob store answered a delete of it with
\* an error: then the share is marked deleted all the same and no later run
\* comes back to the object.
C24_ExpiredEventuallyDeleted ==
  \A s \in SweptIds :
    (shares[s].status = "active" /\ shares[s].expires_at <= now)
      ~> (shares[s].status = "deleted" /\ (s \in blobs => s \in blobFailed))

\* C24 witness: a run was ended by the blob store raising on a share, and a
\* later run deleted that share and its object
C24_Witness ==
  \E s \in SweptIds :
    /\ shares[s].status = "deleted"
    /\ shares[s].expires_at <= now
    /\ s \in blobFailed
    /\ s \notin blobs
    /\ deletes[s] = 1

\* C25: an access_share call on an id that has no row or whose row is not
\* active (deleted or failed) returns None and changes nothing: every share
\* row, every object and the record of served rows are as before, and the
\* call issues no storage delete.
C25_InactiveAccessChangesNothing ==
  [][\A c \in CallIds, s \in ShareIds :
       (/\ calls[c].pc = "idle"
        /\ calls'[c] # calls[c]
        /\ outcomes'[s] # outcomes[s]
        /\ shares[s].status # "active")
         => /\ calls'[c] = DoneCall
            /\ outcomes'[s] = [outcomes[s] EXCEPT !.not_found = @ + 1]
            /\ shares' = shares
            /\ blobs' = blobs
            /\ blobFailed' = blobFailed
            /\ served' = served
            /\ deletes' = deletes
  ]_vars

\* C25 witness: every access went to a failed share, returned None, and the
\* share still has no click
C25_Witness ==
  /\ \E s \in ShareIds :
       /\ shares[s].status = "failed"
       /\ shares[s].click_count = 0
       /\ outcomes[s].not_found = MaxCalls
       /\ outcomes[s].updates = 0
       /\ deletes[s] = 0
  /\ \A c \in CallIds : calls[c] = DoneCall

\* C26: a consume_unlock_token call returns the method (succeeds) only if
\* the token carries the signature issued for its payload, its expiry had
\* not passed when the call was made, it names the calling device, its
\* method is CREDIT or BONUS, no unlock_token_uses row has its jti, and the
\* wallet of the device is eligible (credits > 0 for CREDIT, bonus unused
\* for BONUS).
C26_SuccessOnlyIfAllHold ==
  [][\A c \in ConsumeIds :
       (consumes[c].pc = "checked" /\ consumes'[c].pc = "returned")
         => LET call == consumes[c]
                m == call.tok.payload.m
                wallet == ensured_wallet(call.did)
            IN /\ call.obs.signed
               /\ ~call.obs.expired
               /\ ~call.obs.foreign
               /\ m \in Methods
               /\ m = "CREDIT" => wallet.credits > 0
               /\ m = "BONUS" => ~wallet.bonus_used
               /\ UsesOf(call.tok.payload.jti) = {}
  ]_vars

\* the unlock_token_uses rows of device d with method m
UsesBy(d, m) == {u \in uses : u.device_id = d /\ u.method = m}

\* C27: in every committed state, for each device that has a wallet row,
\* credits is 100 minus the number of its CREDIT rows in unlock_token_uses
\* and bonus_used is true exactly when it has a BONUS row; a device without
\* a wallet row has no row in unlock_token_uses.
C27_DebitMatchesUses ==
  \A d \in Devices :
    IF wallets[d].exists
      THEN /\ wallets[d].credits = DefaultCredits - Cardinality(UsesBy(d, "CREDIT"))
           /\ wallets[d].bonus_used <=> UsesBy(d, "BONUS") # {}
      ELSE UsesBy(d, "CREDIT") \cup UsesBy(d, "BONUS") = {}

\* a replayed CREDIT token has run into the primary key at its commit and
\* its debit was rolled back with it: one credit is left, 99 rows are there
C27_Witness ==
  /\ lastConsume.code = "IntegrityError"
  /\ wallets[1].credits = 1
  /\ Cardinality(UsesBy(1, "CREDIT")) = DefaultCredits - 1

\* the CREDIT rows that consumes of this run have committed for device d
NewCreditRows(d) == {u \in UsesBy(d, "CREDIT") : u.jti <= WalletTokens}

\* the jti of the CREDIT tokens a consume call of this run has returned
\* CREDIT for
CreditJtiReported ==
  {r[1] : r \in {q \in reported :
                   \E t \in tokens : t.payload.jti = q[1] /\ t.payload.m = "CREDIT"}}

\* C28: credits is never negative, in the committed wallet rows and in the
\* wallet object of a session; of the distinct CREDIT tokens of a device
\* presented while its balance was b, at most b have a consume that
\* returned CREDIT; and a consume that reaches the wallet row lock with a
\* CREDIT token while the balance is 0 ends with UNLOCK_REQUIRED, whatever
\* the balance was when the token was issued.
C28_CreditsNeverNegative ==
  /\ [](/\ \A d \in Devices : wallets[d].credits >= 0
        /\ \A c \in ConsumeIds : consumes[c].view.credits >= 0
        /\ Cardinality(CreditJtiReported)
             <= wallets[1].credits + Cardinality(NewCreditRows(1)))
  /\ [][\A c \in ConsumeIds :
          (/\ consumes[c].pc = "checked"
           /\ consumes'[c].pc # "checked"
           /\ consumes[c].tok.payload.m = "CREDIT"
           /\ wallets[consumes[c].did].credits <= 0)
            => /\ consumes'[c].pc = "done"
               /\ lastConsume'.code = "UNLOCK_REQUIRED"
               /\ wallets' = wallets /\ uses' = uses /\ reported' = reported
     ]_vars

\* two distinct CREDIT tokens were presented in two requests while one
\* credit was left: one consume was committed, the other was rejected under
\* the lock
C28_Witness ==
  /\ \A c \in ConsumeIds : consumes[c].pc = "done"
  /\ lastConsume.code = "UNLOCK_REQUIRED"
  /\ lastConsume.obs.signed /\ ~lastConsume.obs.expired /\ ~lastConsume.obs.foreign
  /\ UsesOf(lastConsume.obs.jti) = {}
  /\ \E t \in tokens : t.payload.jti = lastConsume.obs.jti /\ t.payload.m = "CREDIT"
  /\ wallets[1].credits = 0
  /\ Cardinality(NewCreditRows(1)) = 1
  /\ UsesBy(1, "BONUS") = {}

\* the BONUS tokens issued in this run
BonusTokens == {t \in tokens : t.payload.m = "BONUS"}

\* the consume calls of this run that returned BONUS
BonusReported == {r \in reported : \E t \in BonusTokens : t.payload.jti = r[1]}

\* C29: for each device at most one consume ever returns BONUS and at most
\* one BONUS row is committed; bonus_used never goes from true back to
\* false; and a consume that takes the wallet row lock with a BONUS token
\* when bonus_used is true ends with UNLOCK_REQUIRED, although the token was
\* issued while the bonus was unused.
C29_BonusOnce ==
  /\ [](/\ Cardinality(BonusReported) <= 1
        /\ \A d \in Devices : Cardinality(UsesBy(d, "BONUS")) <= 1)
  /\ [][/\ \A d \in Devices : wallets[d].bonus_used => wallets'[d].bonus_used
         /\ \A c \in ConsumeIds :
              (/\ consumes[c].pc = "checked"
               /\ consumes'[c].pc # "checked"
               /\ consumes[c].tok.payload.m = "BONUS"
               /\ wallets[consumes[c].did].bonus_used)
                => /\ consumes'[c].pc = "done"
                   /\ lastConsume'.code = "UNLOCK_REQUIRED"
                   /\ wallets' = wallets /\ uses' = uses /\ reported' = reported
     ]_vars

\* two BONUS tokens were issued to device 1 while its bonus was unused; one
\* was consumed and committed, the other was then rejected under the lock
C29_Witness ==
  /\ Cardinality(BonusTokens) = 2
  /\ wallets[1].bonus_used
  /\ Cardinality(UsesBy(1, "BONUS")) = 1
  /\ lastConsume.code = "UNLOCK_REQUIRED"
  /\ lastConsume.obs.signed /\ ~lastConsume.obs.expired /\ ~lastConsume.obs.foreign
  /\ UsesOf(lastConsume.obs.jti) = {}
  /\ \E t \in BonusTokens : t.payload.jti = lastConsume.obs.jti

\* C30: every share row has expires_at = created_at + TTL, the rows that
\* create_share inserted after an id collision included.
C30_ExpiresIsCreatedPlusTtl ==
  \A s \in ShareIds :
    shares[s].status # "none" =>
      shares[s].expires_at = shares[s].created_at + ShareTtlSeconds

\* the columns of a share row that no statement after the insert names
WriteOnce(row) ==
  [device_id |-> row.device_id, created_at |-> row.created_at,
   expires_at |-> row.expires_at, max_clicks |-> row.max_clicks]

\* C31: once a share row exists, access changes only its click_count (by
\* one) and delete changes only its status (to deleted); device_id,
\* created_at, expires_at and max_clicks keep their values, no row appears
\* or disappears, and a step of an operation on one share changes no field
\* of another share.
C31_OnlyCountAndStatusChange ==
  [][/\ \A s \in DOMAIN shares :
          /\ WriteOnce(shares'[s]) = WriteOnce(shares[s])
          /\ shares'[s].click_count # shares[s].click_count
               => /\ shares'[s].click_count = shares[s].click_count + 1
                  /\ shares'[s].status = shares[s].status
                  /\ outcomes'[s].updates = outcomes[s].updates + 1
          /\ shares'[s].status # shares[s].status
               => /\ shares'[s].status = "deleted"
                  /\ shares'[s].click_count = shares[s].click_count
                  /\ deletes'[s] = deletes[s] + 1
     /\ \A s, t \in DOMAIN shares :
          (outcomes'[s].updates # outcomes[s].updates \/ deletes'[s] # deletes[s])
            /\ t # s => shares'[t] = shares[t]
  ]_vars

\* one share was viewed to its limit and deleted while another share of the
\* same device, viewed once, is still active with its expiry unchanged
C31_Witness ==
  \E s, t \in DOMAIN shares :
    /\ s # t
    /\ shares[s].status = "deleted" /\ deletes[s] > 0
    /\ shares[s].click_count = ShareMaxClicks
    /\ shares[t].status = "active" /\ shares[t].click_count = 1
    /\ shares[t].device_id = shares[s].device_id
    /\ WriteOnce(shares[t]) = WriteOnce(NewShare(0))
    /\ WriteOnce(shares[s]) = WriteOnce(NewShare(0))

\* the codes with which the handler answers before it calls the synthesis
CheckCodes ==
  {"FILE_TOO_LARGE", "RATE_LIMITED", "UNLOCK_REQUIRED", "AudioProcessingError"}

C33_NoOrphanVoice ==
  \A c \in CloneIds :
    clones[c].pc = "done" => clones[c].voice \notin voices

\* C34: every share that was inserted and is active has its audio object in
\* the bucket as long as no delete of that share has started; a create
\* attempt whose share_id collides with it leaves the object alone.
C34_ActiveShareKeepsObject ==
  \A s \in ShareIds :
    (shares[s].status = "active" /\ deletes[s] = 0 /\ s \notin blobFailed
       /\ \A c \in CallIds : calls[c].sid # s)
      => s \in blobs

\* C35: whenever no access_share call on a share is in flight, the share is
\* not both active and at its click limit, also after an access whose
\* storage delete failed.
C35_ExhaustedNotActive ==
  \A s \in ShareIds :
    (\A c \in CallIds : calls[c].sid # s)
      => (shares[s].status = "active"
            => shares[s].click_count < shares[s].max_clicks)

\* the error codes of UnlockError that consume_unlock_token raises
UnlockErrorCodes ==
  {"INVALID_UNLOCK_TOKEN", "UNLOCK_TOKEN_EXPIRED", "UNLOCK_TOKEN_USED",
   "UNLOCK_REQUIRED"}

\* C36: a consume_unlock_token call that raises UnlockError, before or
\* under the wallet row lock, changes no committed wallet row and no
\* unlock_token_uses row; and a call ends without a commit only with one of
\* the four codes.
C36_RejectionChangesNothing ==
  [][\A c \in ConsumeIds :
       (consumes[c].pc \in {"idle", "checked"} /\ consumes'[c].pc = "done")
         => /\ lastConsume'.code \in UnlockErrorCodes
            /\ wallets' = wallets
            /\ uses' = uses
            /\ reported' = reported
  ]_vars

\* a BONUS token was consumed and committed, and a second call with it was
\* rejected under the lock: the wallet still shows the one spend
C36_Witness ==
  /\ lastConsume.code = "UNLOCK_REQUIRED"
  /\ lastConsume.obs.signed /\ ~lastConsume.obs.foreign
  /\ Cardinality(uses) = 1
  /\ \E d \in Devices :
       /\ wallets[d].exists /\ wallets[d].bonus_used
       /\ wallets[d].credits = DefaultCredits
       /\ \A e \in Devices \ {d} : ~wallets[e].exists

\* the unlock_token_uses row of a consume call
UseRow(call) ==
  [jti |-> call.tok.payload.jti, device_id |-> call.did,
   method |-> call.tok.payload.m]

\* C37: a consume_unlock_token(device_id, token) call that returned the
\* method has, when its transaction ends, added exactly one
\* unlock_token_uses row, that of the token's jti, device and method, and
\* changed the wallet row of device_id by that one spend; the wallet rows of
\* the other devices and the rows that were there stay as they were.
C37_SuccessAddsOneRow ==
  [][\A c \in ConsumeIds :
       (consumes[c].pc = "returned" /\ consumes'[c].pc = "done")
         => LET call == consumes[c]
            IN /\ UseRow(call) \notin uses
               /\ uses' = uses \cup {UseRow(call)}
               /\ wallets'[call.did] =
                    spend(call.tok.payload.m, ensured_wallet(call.did))
               /\ \A d \in Devices \ {call.did} : wallets'[d] = wallets[d]
  ]_vars

\* the rows of device d that are not failed and whose created_at lies in the
\* window that ends at t
InWindow(d, t) ==
  {s \in DOMAIN shares :
     /\ shares[s].status \notin {"none", "failed"}
     /\ shares[s].device_id = d
     /\ shares[s].created_at >= t - RateLimitWindowSeconds
     /\ shares[s].created_at <= t}

\* C38: when the create requests do not overlap, no window of the length of
\* the rate-limit window holds more non-failed share rows of one device than
\* the ceiling; the windows that end at the created_at of a row are the
\* fullest ones.
C38_SequentialWithinCeiling ==
  \A d \in Devices, r \in DOMAIN shares :
    shares[r].status # "none" =>
      Cardinality(InWindow(d, shares[r].created_at)) <= RateLimitPerDevice

\* a device has made as many shares as the ceiling allows and its next
\* request, with a good file and a proof, was refused
C38_Witness ==
  /\ creates[1].pc = "done"
  /\ creates[1].code = "RATE_LIMITED"
  /\ creates[1].proof = "proof"
  /\ Cardinality(InWindow(creates[1].did, now)) = RateLimitPerDevice

\* C39: consume_unlock_token reports the first check that fails, in the
\* order structure and signature (INVALID_UNLOCK_TOKEN), expiry
\* (UNLOCK_TOKEN_EXPIRED), device match (INVALID_UNLOCK_TOKEN), method and
\* jti fields, prior use (UNLOCK_TOKEN_USED) and, under the wallet row lock,
\* eligibility (UNLOCK_REQUIRED); so the code is a function of the token,
\* the caller and the tables at the moment of each check, and a token that
\* is both used and past its expiry is answered UNLOCK_TOKEN_EXPIRED.
C39_FirstFailingCheck ==
  [][\A c \in ConsumeIds :
       LET call == consumes[c]
           after == consumes'[c]
           o == ObsNext(c)
           ends(code) == after.pc = "done" /\ lastConsume'.code = code
           wallet == ensured_wallet(call.did)
           m == call.tok.payload.m
       IN (Steps(c) /\ after.pc # "idle") =>
            /\ call.pc = "idle" =>
                 IF ~o.signed THEN ends("INVALID_UNLOCK_TOKEN")
                 ELSE IF o.expired THEN ends("UNLOCK_TOKEN_EXPIRED")
                 ELSE IF o.foreign THEN ends("INVALID_UNLOCK_TOKEN")
                 ELSE IF UsesOf(o.jti) # {} THEN ends("UNLOCK_TOKEN_USED")
                 ELSE after.pc = "checked"
            /\ call.pc = "checked" =>
                 IF (m = "CREDIT" /\ wallet.credits <= 0)
                      \/ (m = "BONUS" /\ wallet.bonus_used)
                   THEN ends("UNLOCK_REQUIRED")
                   ELSE after.pc = "returned"
  ]_vars

\* a token that was consumed and is past its expiry was presented again by
\* its device and answered UNLOCK_TOKEN_EXPIRED
C39_Witness ==
  /\ lastConsume.code = "UNLOCK_TOKEN_EXPIRED"
  /\ lastConsume.obs.signed /\ lastConsume.obs.expired /\ ~lastConsume.obs.foreign
  /\ UsesOf(lastConsume.obs.jti) # {}

\* C40: a create request that is answered with a share has added exactly
\* one share row, under an id that had none: status active, click_count 0,
\* max_clicks the configured maximum, the device of the request, the expiry
\* computed on entry, and the object uploaded under the same share_id in the
\* bucket; the row is accessible at once (unless the whole lifetime has
\* passed since create_share was entered) and no other row is added or
\* changed.
C40_CreateAddsOneRow ==
  [][\A c \in CreateIds :
       (creates[c].pc # "done" /\ creates'[c].pc = "done" /\ creates'[c].code = "ok")
         => LET call == creates[c]
                sid == creates'[c].sid
                row == shares'[sid]
            IN /\ sid = call.sid
               /\ shares[sid] = NoShare
               /\ row.status = "active"
               /\ row.click_count = 0
               /\ row.max_clicks = ShareMaxClicks
               /\ row.device_id = call.did
               /\ row.expires_at = call.expires
               /\ sid \in blobs'
               /\ now < call.expires => is_accessible(row, now)
               /\ \A t \in DOMAIN shares \ {sid} : shares'[t] = shares[t]
  ]_vars

\* the request was answered with a share that is accessible, its object in
\* the bucket, next to an earlier share of the device that is as it was
C40_Witness ==
  \E s, t \in DOMAIN shares :
    /\ s # t
    /\ creates[1].pc = "done" /\ creates[1].code = "ok" /\ creates[1].sid = s
    /\ is_accessible(shares[s], now)
    /\ shares[s].click_count = 0
    /\ s \in blobs
    /\ shares[t].status = "active"
    /\ shares[t].created_at < shares[s].created_at

====
